---- MODULE Spec2Model ----
(***************************************************************************)
(* The real-time session relay of duowatch: the WebSocket handlers of      *)
(* registerRoutes (server/routes.ts), their per-connection closure         *)
(* variables and the shared sessionConnections table.                      *)
(*                                                                         *)
(* One action is one run of a callback between two suspension points of    *)
(* the Node event loop.  The 'message' callback is async: a chat frame     *)
(* suspends at `await storage.createMessage`, so it is two actions         *)
(* (OnChat up to the await, ChatStored / ChatStoreFailed after it) and     *)
(* other callbacks run in between.                                         *)
(***************************************************************************)
EXTENDS Integers, Sequences, FiniteSets, TLC

\* ------------------------------------------------------------------ bounds
\* inbound frames handled in one behaviour, over all connections
MaxFrames == 3
\* storage.createMessage calls in flight at one time, over all connections
MaxPending == 1
\* renders of the Watch page in one behaviour
MaxRenders == 6
\* chat messages the user sends from the Watch page in one behaviour
MaxSends == 2
\* HTTP requests to the join and playlist routes in one behaviour
MaxRequests == 3

\* the sockets handed to wss.on('connection'); a socket identifies its connection
Conns == {1, 2}
\* ids are serial primary keys of the sessions and users tables: they start at 1
SessionIds == {1, 2}
UserIds == {1, 2}

\* `let userId: number | undefined`: the value before any assignment.
Undefined == -1

\* a test against 0 only: undefined passes
TruthyNonZero(x) == x # 0

\* JavaScript truthiness of a `number | undefined`: undefined and 0 are falsy.
Truthy(x) == x # Undefined /\ x # 0

\* ------------------------------------------------------------------ frames
\* A frame is the object left by JSON.parse and the schema's parse.  The fields
\* the handlers never read (timestamp, currentTime, username) are relayed with
\* the object as a whole and are not drawn separately; action and message stand
\* for the payload.
VideoActions == {"play", "pause"}

\* `z.number()`: the ids a schema-valid frame can carry; 0 is one of them
SchemaNumbers == {0} \cup SessionIds \cup UserIds

videoSyncMessageSchema ==
    [type : {"videoSync"}, sessionId : SchemaNumbers, action : VideoActions]

chatMessageSchema ==
    [type : {"chat"}, sessionId : SchemaNumbers, userId : SchemaNumbers, message : {"hi"}]

Participant(u) == [userId |-> u, username |-> "User"]

sessionUpdateSchema ==
    [type : {"sessionUpdate"}, sessionId : SchemaNumbers,
     participants : {<< Participant(1) >>}]

\* the discriminated union of the three schemas
wsMessageSchema == videoSyncMessageSchema \cup chatMessageSchema \cup sessionUpdateSchema

\* parsed JSON that fails wsMessageSchema.parse: a chat frame without its
\* message field, and a frame of an unknown type
SchemaInvalidFrames ==
    {[type |-> "chat", sessionId |-> 1, userId |-> 1], [type |-> "ping", sessionId |-> 1]}

\* text on which JSON.parse throws a SyntaxError
Unparsable == [text |-> "{"]

ErrorFrame == [type |-> "error", message |-> "Invalid message format"]

NoFrame == [type |-> "none"]

\* values of the history variable lastReg: no operation yet or a close; a chat
\* frame for session s handled to its end on a socket not yet closed; and a chat
\* frame whose handler was cut short by a failed store or ended after the close
Unregistered == [op |-> "unregister", sessionId |-> Undefined]
RegisteredFor(s) == [op |-> "register", sessionId |-> s]
Unsettled == [op |-> "unsettled", sessionId |-> Undefined]

\* ------------------------------------------------------------------- state
VARIABLES
    userId,              \* closure variable of each connection
    sessionId,           \* closure variable of each connection
    sessionConnections,  \* sessionId -> sequence of {userId, socket}; keys come and go
    readyState,          \* ws.readyState of each socket
    pending,             \* the storage.createMessage calls in flight: {conn, chatMsg, insert}
    frames,              \* inbound frames handled so far
    lastReg,             \* history: the connection's latest registry operation
    last,                \* history: the callback that ran last
    sent                 \* history: the socket.send calls of that callback, in order

vars == << userId, sessionId, sessionConnections, readyState, pending, frames,
           lastReg, last, sent >>

Connection(u, ws) == [userId |-> u, socket |-> ws]

\* sessionConnections[s], or the empty list where the code finds the key missing
ConnectionsOf(table, s) == IF s \in DOMAIN table THEN table[s] ELSE << >>

\* table with key s set to list
WithKey(table, s, list) ==
    [k \in (DOMAIN table) \cup {s} |-> IF k = s THEN list ELSE table[k]]

\* the emptied list left under its key
WithoutKeyKept(table, s) == WithKey(table, s, << >>)

\* `delete table[s]`
WithoutKey(table, s) == [k \in (DOMAIN table) \ {s} |-> table[k]]

\* one socket.send per element of list, in order
Sends(list, frame) == [i \in 1..Len(list) |-> [to |-> list[i].socket, frame |-> frame]]

\* ---------------------------------------------------------------- fan-outs
\* videoSync: `connection.userId !== userId && readyState === OPEN`
VideoSyncTargets(list, u, rs) ==
    SelectSeq(list, LAMBDA conn : conn.userId # u /\ rs[conn.socket] = "OPEN")

\* the loop without its readyState test
OpenTargetsAll(list, rs) == list

\* chat, sessionUpdate and the roster on close: `readyState === OPEN`
OpenTargets(list, rs) ==
    SelectSeq(list, LAMBDA conn : rs[conn.socket] = "OPEN")

\* ------------------------------------------------------- lazy registration
\* the registration without its `some` test
NotRegisteredUnchecked(table, s, u) == TRUE

\* `!sessionConnections[sessionId]?.some(conn => conn.userId === userId)`
NotRegistered(table, s, u) ==
    ~ \E i \in 1..Len(ConnectionsOf(table, s)) : ConnectionsOf(table, s)[i].userId = u

Register(table, s, u, ws) ==
    IF Truthy(u) /\ Truthy(s) /\ NotRegistered(table, s, u)
    THEN WithKey(table, s, Append(ConnectionsOf(table, s), Connection(u, ws)))
    ELSE table

\* ------------------------------------------------------------------- close
\* the filter without its socket test: every entry of the user is dropped
CloseFilterByUser(list, u, ws) ==
    SelectSeq(list, LAMBDA conn : ~(conn.userId = u))

\* `.filter(conn => !(conn.userId === userId && conn.socket === ws))`
CloseFilter(list, u, ws) ==
    SelectSeq(list, LAMBDA conn : ~(conn.userId = u /\ conn.socket = ws))

remainingUsers(list) == [i \in 1..Len(list) |-> Participant(list[i].userId)]

updateMessage(s, list) ==
    [type |-> "sessionUpdate", sessionId |-> s, participants |-> remainingUsers(list)]

\* ------------------------------------------------- the Watch page (client)
\* The Watch component and its hook useWebSocket.  One action is one event
\* handler of the page followed by the render React runs for the state it set
\* and by the effects of that render.
VARIABLES
    user,            \* useState: null until /api/auth/me answers, then the user's id
    session,         \* useQuery data: undefined until the session is fetched
    messages,        \* useState: how many chat messages the page shows
    renderId,        \* renders so far; each render makes a new handleWsMessage
    effectDeps,      \* [sessionId, userId, onMessage] of the last run of the effect
    effectSocket,    \* the socket the pending cleanup closes, if the effect made one
    socketRef,       \* socketRef.current
    clientSockets,   \* readyState of every `new WebSocket` of the page, in order
    sends,           \* calls of handleSendMessage so far
    wsOut,           \* chat frames sent over the socket, not yet handled by the server
    posts,           \* POST /api/sessions/:id/messages requests, sent or answered
    messagesTable    \* rows of the messages table

clientVars == << user, session, messages, renderId, effectDeps, effectSocket, socketRef,
                 clientSockets, sends, wsOut, posts, messagesTable >>

\* `const { sessionId } = useParams()`, parsed
WatchSessionId == 1

\* `user?.id || null`, `sessionId ? parseInt(sessionId) : null`
OrNull(x) == IF Truthy(x) THEN x ELSE Undefined

\* socket.close() of the browser
SocketClose(socks, i) ==
    IF i = Undefined THEN socks
    ELSE [socks EXCEPT ![i] = IF @ \in {"CONNECTING", "OPEN"} THEN "CLOSING" ELSE @]

ClientInit ==
    /\ user = Undefined
    /\ session = Undefined
    /\ messages = 0
    /\ renderId = 1
    /\ effectDeps = << WatchSessionId, Undefined, 1 >>
    /\ effectSocket = Undefined
    /\ socketRef = Undefined
    /\ clientSockets = << >>
    /\ sends = 0
    /\ wsOut = << >>
    /\ posts = << >>
    /\ messagesTable = << >>

\* ----------------------------------------------------------- HTTP routes
\* The join route and the playlist item route with the tables they use.  The
\* handlers are async: one action is the part of a handler between two awaits,
\* and a query reads or writes its table when the action after its await runs.
VARIABLES
    participantsTable,   \* rows of the participants table, in insertion order
    playlistItemsTable,  \* rows of the playlist_items table
    joins,               \* POST /api/sessions/:id/join requests being handled
    deletes,             \* DELETE /api/playlists/:playlistId/items/:itemId requests
    requests,            \* requests received so far
    httpLast             \* history: the handler step that ran last

httpVars == << participantsTable, playlistItemsTable, joins, deletes, requests, httpLast >>

appVars == << clientVars, httpVars >>

\* rows of the playlists table: playlist 1 is user 1's, playlist 2 is user 2's
playlistsTable == { [id |-> 1, userId |-> 1], [id |-> 2, userId |-> 2] }

\* storage.getPlaylist
getPlaylist(id) == {p \in playlistsTable : p.id = id}

\* storage.getSessionParticipants
getSessionParticipants(table, s) == SelectSeq(table, LAMBDA p : p.sessionId = s)

\* the select of addParticipant
existingParticipant(table, s, u) ==
    SelectSeq(table, LAMBDA p : p.sessionId = s /\ p.userId = u)

HttpInit ==
    /\ participantsTable = << >>
    /\ playlistItemsTable = { [id |-> 1, playlistId |-> 1], [id |-> 2, playlistId |-> 2] }
    /\ joins = << >>
    /\ deletes = << >>
    /\ requests = 0
    /\ httpLast = [op |-> "listen", userId |-> Undefined]

\* -------------------------------------------------------------------- Init
Init ==
    /\ userId = [c \in Conns |-> Undefined]
    /\ sessionId = [c \in Conns |-> Undefined]
    /\ sessionConnections = << >>
    /\ readyState = [c \in Conns |-> "OPEN"]
    /\ pending = << >>
    /\ frames = 0
    /\ lastReg = [c \in Conns |-> Unregistered]
    /\ last = [op |-> "listen", conn |-> Undefined, frame |-> NoFrame]
    /\ sent = << >>
    /\ ClientInit
    /\ HttpInit

\* ----------------------------------------------------------------- actions
\* the handlers run one frame at a time, the awaited store included: no
\* 'message' callback starts while a createMessage call is in flight
ReceiveSerial(c) ==
    /\ readyState[c] = "OPEN"
    /\ frames < MaxFrames
    /\ Len(pending) = 0
    /\ frames' = frames + 1

\* a 'message' event on an open socket
Receive(c) ==
    /\ readyState[c] = "OPEN"
    /\ frames < MaxFrames
    /\ frames' = frames + 1

\* JSON.parse throws: the catch block logs, the error is no ZodError
OnUnparsable(c) ==
    /\ Receive(c)
    /\ sent' = << >>
    /\ last' = [op |-> "unparsable", conn |-> c, frame |-> Unparsable]
    /\ UNCHANGED << userId, sessionId, sessionConnections, readyState, pending, lastReg >>

\* the handler with `sessionId = parsedMessage.sessionId` ahead of the parse
OnSchemaInvalidAfterAssign(c, parsedMessage) ==
    /\ Receive(c)
    /\ parsedMessage \notin wsMessageSchema
    /\ sessionId' = [sessionId EXCEPT ![c] = parsedMessage.sessionId]
    /\ sent' = << [to |-> c, frame |-> ErrorFrame] >>
    /\ last' = [op |-> "invalid", conn |-> c, frame |-> parsedMessage]
    /\ UNCHANGED << userId, sessionConnections, readyState, pending, lastReg >>

\* wsMessageSchema.parse throws a ZodError: the catch block answers the sender
OnSchemaInvalid(c, parsedMessage) ==
    /\ Receive(c)
    /\ parsedMessage \notin wsMessageSchema
    /\ sent' = << [to |-> c, frame |-> ErrorFrame] >>
    /\ last' = [op |-> "invalid", conn |-> c, frame |-> parsedMessage]
    /\ UNCHANGED << userId, sessionId, sessionConnections, readyState, pending, lastReg >>

\* case 'videoSync', then the lazy registration
OnVideoSync(c, syncMessage) ==
    /\ Receive(c)
    /\ syncMessage \in videoSyncMessageSchema
    /\ sessionId' = [sessionId EXCEPT ![c] = syncMessage.sessionId]
    /\ sent' = Sends(VideoSyncTargets(ConnectionsOf(sessionConnections, syncMessage.sessionId),
                                      userId[c], readyState),
                     syncMessage)
    /\ sessionConnections' =
           Register(sessionConnections, syncMessage.sessionId, userId[c], c)
    /\ last' = [op |-> "videoSync", conn |-> c, frame |-> syncMessage]
    /\ UNCHANGED << userId, readyState, pending, lastReg >>

\* the argument with userId taken from the wrong field of the frame
InsertMessageWrongUser(chatMsg) ==
    [sessionId |-> chatMsg.sessionId, userId |-> chatMsg.sessionId,
     content |-> chatMsg.message]

\* the argument of storage.createMessage
InsertMessage(chatMsg) ==
    [sessionId |-> chatMsg.sessionId, userId |-> chatMsg.userId,
     content |-> chatMsg.message]

\* case 'chat' up to `await storage.createMessage(...)`
OnChat(c, chatMsg) ==
    /\ Receive(c)
    /\ chatMsg \in chatMessageSchema
    /\ Len(pending) < MaxPending
    /\ sessionId' = [sessionId EXCEPT ![c] = chatMsg.sessionId]
    /\ userId' = [userId EXCEPT ![c] = chatMsg.userId]
    /\ pending' = Append(pending, [conn |-> c, chatMsg |-> chatMsg,
                                   insert |-> InsertMessage(chatMsg)])
    /\ sent' = << >>
    /\ last' = [op |-> "chat", conn |-> c, frame |-> chatMsg]
    /\ UNCHANGED << sessionConnections, readyState, lastReg >>

RemoveAt(seq, i) == [j \in 1..(Len(seq) - 1) |-> IF j < i THEN seq[j] ELSE seq[j + 1]]

\* createMessage resolved: the chat fan-out, then the lazy registration.  Both
\* read the closure variables as they are now.
ChatStored(i) ==
    /\ i \in 1..Len(pending)
    /\ LET c == pending[i].conn
           chatMsg == pending[i].chatMsg
       IN  /\ sent' = Sends(OpenTargets(ConnectionsOf(sessionConnections, sessionId[c]),
                                        readyState),
                            chatMsg)
           /\ sessionConnections' = Register(sessionConnections, sessionId[c], userId[c], c)
           /\ lastReg' = [lastReg EXCEPT ![c] =
                              IF readyState[c] = "CLOSED" THEN Unsettled
                              ELSE RegisteredFor(chatMsg.sessionId)]
           /\ last' = [op |-> "chatStored", conn |-> c, frame |-> chatMsg]
    /\ pending' = RemoveAt(pending, i)
    /\ UNCHANGED << userId, sessionId, readyState, frames >>

\* createMessage rejected: the catch block logs, the error is no ZodError
ChatStoreFailed(i) ==
    /\ i \in 1..Len(pending)
    /\ pending' = RemoveAt(pending, i)
    /\ sent' = << >>
    /\ lastReg' = [lastReg EXCEPT ![pending[i].conn] = Unsettled]
    /\ last' = [op |-> "chatStoreFailed", conn |-> pending[i].conn,
                frame |-> pending[i].chatMsg]
    /\ UNCHANGED << userId, sessionId, sessionConnections, readyState, frames >>

\* case 'sessionUpdate', then the lazy registration
OnSessionUpdate(c, updateMsg) ==
    /\ Receive(c)
    /\ updateMsg \in sessionUpdateSchema
    /\ sessionId' = [sessionId EXCEPT ![c] = updateMsg.sessionId]
    /\ sent' = Sends(OpenTargets(ConnectionsOf(sessionConnections, updateMsg.sessionId),
                                 readyState),
                     updateMsg)
    /\ sessionConnections' =
           Register(sessionConnections, updateMsg.sessionId, userId[c], c)
    /\ last' = [op |-> "sessionUpdate", conn |-> c, frame |-> updateMsg]
    /\ UNCHANGED << userId, readyState, pending, lastReg >>

\* the closing handshake starts: readyState leaves OPEN before 'close' is emitted
BeginClose(c) ==
    /\ readyState[c] = "OPEN"
    /\ readyState' = [readyState EXCEPT ![c] = "CLOSING"]
    /\ sent' = << >>
    /\ last' = [op |-> "closing", conn |-> c, frame |-> NoFrame]
    /\ UNCHANGED << userId, sessionId, sessionConnections, pending, frames, lastReg >>

\* ws.on('close'); the socket is CLOSED when the event is emitted
OnClose(c) ==
    /\ readyState[c] # "CLOSED"
    /\ readyState' = [readyState EXCEPT ![c] = "CLOSED"]
    /\ lastReg' = [lastReg EXCEPT ![c] = IF @ = Unsettled THEN @ ELSE Unregistered]
    /\ last' = [op |-> "close", conn |-> c, frame |-> NoFrame]
    /\ IF Truthy(sessionId[c]) /\ Truthy(userId[c]) /\ sessionId[c] \in DOMAIN sessionConnections
       THEN LET s == sessionId[c]
                kept == CloseFilter(sessionConnections[s], userId[c], c)
            IN  IF Len(kept) = 0
                THEN /\ sessionConnections' = WithoutKey(sessionConnections, s)
                     /\ sent' = << >>
                ELSE /\ sessionConnections' = WithKey(sessionConnections, s, kept)
                     /\ sent' = Sends(OpenTargets(kept, readyState'), updateMessage(s, kept))
       ELSE /\ sessionConnections' = sessionConnections
            /\ sent' = << >>
    /\ UNCHANGED << userId, sessionId, pending, frames >>

\* the frames of a schema whose ids are ids of the given rows
WithIds(schema, sessionIds, userIds) ==
    {f \in schema : f.sessionId \in sessionIds
                        /\ ("userId" \in DOMAIN f => f.userId \in userIds)}

Next ==
    \/ \E c \in Conns : OnUnparsable(c) /\ UNCHANGED appVars
    \/ \E c \in Conns, f \in SchemaInvalidFrames : OnSchemaInvalid(c, f) /\ UNCHANGED appVars
    \/ \E c \in Conns, f \in WithIds(videoSyncMessageSchema, SessionIds, UserIds) :
           OnVideoSync(c, f) /\ UNCHANGED appVars
    \/ \E c \in Conns, f \in WithIds(chatMessageSchema, SessionIds, UserIds) :
           OnChat(c, f) /\ UNCHANGED appVars
    \/ \E i \in 1..MaxPending : ChatStored(i) /\ UNCHANGED appVars
    \/ \E i \in 1..MaxPending : ChatStoreFailed(i) /\ UNCHANGED appVars
    \/ \E c \in Conns, f \in WithIds(sessionUpdateSchema, SessionIds, UserIds) :
           OnSessionUpdate(c, f) /\ UNCHANGED appVars
    \/ \E c \in Conns : BeginClose(c) /\ UNCHANGED appVars
    \/ \E c \in Conns : OnClose(c) /\ UNCHANGED appVars

Spec == Init /\ [][Next]_vars

\* ------------------------------------------------ the relay with id 0
\* the same handlers with frames whose ids are drawn from 0 and 1
ZeroIds == {0, 1}

NextZero ==
    \/ \E c \in Conns : OnUnparsable(c) /\ UNCHANGED appVars
    \/ \E c \in Conns, f \in SchemaInvalidFrames : OnSchemaInvalid(c, f) /\ UNCHANGED appVars
    \/ \E c \in Conns, f \in WithIds(videoSyncMessageSchema, ZeroIds, ZeroIds) :
           OnVideoSync(c, f) /\ UNCHANGED appVars
    \/ \E c \in Conns, f \in WithIds(chatMessageSchema, ZeroIds, ZeroIds) :
           OnChat(c, f) /\ UNCHANGED appVars
    \/ \E i \in 1..MaxPending : ChatStored(i) /\ UNCHANGED appVars
    \/ \E i \in 1..MaxPending : ChatStoreFailed(i) /\ UNCHANGED appVars
    \/ \E c \in Conns, f \in WithIds(sessionUpdateSchema, ZeroIds, ZeroIds) :
           OnSessionUpdate(c, f) /\ UNCHANGED appVars
    \/ \E c \in Conns : BeginClose(c) /\ UNCHANGED appVars
    \/ \E c \in Conns : OnClose(c) /\ UNCHANGED appVars

SpecZero == Init /\ [][NextZero]_vars

\* ------------------------------------------------ the Watch page: actions
\* the effect of useWebSocket after a render with these dependencies: when one
\* of them changed, the cleanup of the previous run, then the effect
UseWebSocketEffect(deps) ==
    IF deps = effectDeps
    THEN UNCHANGED << effectDeps, effectSocket, socketRef, clientSockets >>
    ELSE LET cleaned == SocketClose(clientSockets, effectSocket)
         IN  /\ effectDeps' = deps
             /\ IF ~Truthy(deps[1]) \/ ~Truthy(deps[2])
                THEN /\ clientSockets' = cleaned
                     /\ effectSocket' = Undefined
                     /\ socketRef' = socketRef
                ELSE /\ clientSockets' = Append(SocketClose(cleaned, socketRef), "CONNECTING")
                     /\ effectSocket' = Len(clientSockets) + 1
                     /\ socketRef' = Len(clientSockets) + 1

\* a render of Watch with user u: handleWsMessage is a new function, and
\* useWebSocket is called with it
Render(u) ==
    /\ renderId < MaxRenders
    /\ renderId' = renderId + 1
    /\ UseWebSocketEffect(<< OrNull(WatchSessionId), OrNull(u), renderId + 1 >>)

\* checkAuth: /api/auth/me answered, setUser
AuthResolved(u) ==
    /\ user = Undefined
    /\ user' = u
    /\ Render(u)
    /\ UNCHANGED << session, messages, sends, wsOut, posts, messagesTable >>

\* the session query answered
SessionFetched ==
    /\ Truthy(user)
    /\ session = Undefined
    /\ session' = WatchSessionId
    /\ Render(user)
    /\ UNCHANGED << user, messages, sends, wsOut, posts, messagesTable >>

\* socket.onopen: logs
OnSocketOpen(i) ==
    /\ i \in 1..Len(clientSockets)
    /\ clientSockets[i] = "CONNECTING"
    /\ clientSockets' = [clientSockets EXCEPT ![i] = "OPEN"]
    /\ UNCHANGED << user, session, messages, renderId, effectDeps, effectSocket, socketRef,
                    sends, wsOut, posts, messagesTable >>

\* socket.onclose: logs
OnSocketClose(i) ==
    /\ i \in 1..Len(clientSockets)
    /\ clientSockets[i] = "CLOSING"
    /\ clientSockets' = [clientSockets EXCEPT ![i] = "CLOSED"]
    /\ UNCHANGED << user, session, messages, renderId, effectDeps, effectSocket, socketRef,
                    sends, wsOut, posts, messagesTable >>

\* socket.onmessage with a chat frame: handleWsMessage appends it
HandleWsMessage(i) ==
    /\ i \in 1..Len(clientSockets)
    /\ clientSockets[i] = "OPEN"
    /\ messages' = messages + 1
    /\ Render(user)
    /\ UNCHANGED << user, session, sends, wsOut, posts, messagesTable >>

\* handleSendMessage: the optimistic append, the chat frame over the socket
\* (sendMessage drops it unless the socket is open) and the POST
HandleSendMessage ==
    /\ Truthy(user)
    /\ Truthy(session)
    /\ sends < MaxSends
    /\ sends' = sends + 1
    /\ messages' = messages + 1
    /\ wsOut' = IF socketRef # Undefined /\ clientSockets[socketRef] = "OPEN"
                THEN Append(wsOut, [type |-> "chat", sessionId |-> WatchSessionId,
                                    userId |-> user, message |-> sends + 1])
                ELSE wsOut
    /\ posts' = Append(posts, [state |-> "sent",
                               messageData |-> [sessionId |-> WatchSessionId, userId |-> user,
                                                content |-> sends + 1]])
    /\ Render(user)
    /\ UNCHANGED << user, session, messagesTable >>

\* the relay's case 'chat' for a frame of the page: storage.createMessage
WsChatStore(i) ==
    /\ i \in 1..Len(wsOut)
    /\ messagesTable' = Append(messagesTable, InsertMessage(wsOut[i]))
    /\ wsOut' = RemoveAt(wsOut, i)
    /\ UNCHANGED << user, session, messages, renderId, effectDeps, effectSocket, socketRef,
                    clientSockets, sends, posts >>

\* POST /api/sessions/:id/messages: storage.createMessage, then 201
PostMessage(i) ==
    /\ i \in 1..Len(posts)
    /\ posts[i].state = "sent"
    /\ messagesTable' = Append(messagesTable, posts[i].messageData)
    /\ posts' = [posts EXCEPT ![i].state = "answered"]
    /\ UNCHANGED << user, session, messages, renderId, effectDeps, effectSocket, socketRef,
                    clientSockets, sends, wsOut >>

\* the .then of the POST: the messages query is invalidated, refetched, and its
\* onSuccess sets the page's messages to the rows of the table
PostAnswered(i) ==
    /\ i \in 1..Len(posts)
    /\ posts[i].state = "answered"
    /\ posts' = RemoveAt(posts, i)
    /\ messages' = Len(messagesTable)
    /\ Render(user)
    /\ UNCHANGED << user, session, sends, wsOut, messagesTable >>

ClientNext ==
    \/ \E u \in UserIds : AuthResolved(u) /\ UNCHANGED << vars, httpVars >>
    \/ SessionFetched /\ UNCHANGED << vars, httpVars >>
    \/ \E i \in 1..MaxRenders : OnSocketOpen(i) /\ UNCHANGED << vars, httpVars >>
    \/ \E i \in 1..MaxRenders : OnSocketClose(i) /\ UNCHANGED << vars, httpVars >>
    \/ \E i \in 1..MaxRenders : HandleWsMessage(i) /\ UNCHANGED << vars, httpVars >>
    \/ HandleSendMessage /\ UNCHANGED << vars, httpVars >>
    \/ \E i \in 1..MaxSends : WsChatStore(i) /\ UNCHANGED << vars, httpVars >>
    \/ \E i \in 1..MaxSends : PostMessage(i) /\ UNCHANGED << vars, httpVars >>
    \/ \E i \in 1..MaxSends : PostAnswered(i) /\ UNCHANGED << vars, httpVars >>

ClientSpec == Init /\ [][ClientNext]_clientVars

\* ------------------------------------------------- HTTP routes: actions
\* a request is received
Request == requests < MaxRequests /\ requests' = requests + 1

\* POST /api/sessions/:id/join up to `await storage.getSession`; 401 without a
\* logged-in user
JoinRequest(u, s) ==
    /\ Request
    /\ joins' = IF Truthy(u) THEN Append(joins, [userId |-> u, sessionId |-> s, at |-> "getSession"])
                ELSE joins
    /\ httpLast' = [op |-> IF Truthy(u) THEN "join" ELSE "join401", userId |-> u]
    /\ UNCHANGED << participantsTable, playlistItemsTable, deletes >>

\* getSession resolved: 404 for an unknown session, else getSessionParticipants
JoinGotSession(i) ==
    /\ i \in 1..Len(joins)
    /\ joins[i].at = "getSession"
    /\ joins' = IF joins[i].sessionId \in SessionIds
                THEN [joins EXCEPT ![i].at = "getSessionParticipants"]
                ELSE RemoveAt(joins, i)
    /\ httpLast' = [op |-> IF joins[i].sessionId \in SessionIds THEN "joinGotSession" ELSE "join404",
                    userId |-> joins[i].userId]
    /\ UNCHANGED << participantsTable, playlistItemsTable, deletes, requests >>

\* getSessionParticipants resolved: the isParticipant test; the request is
\* answered, or addParticipant is called and runs up to its select
JoinChecked(i) ==
    /\ i \in 1..Len(joins)
    /\ joins[i].at = "getSessionParticipants"
    /\ LET participants == getSessionParticipants(participantsTable, joins[i].sessionId)
           isParticipant == \E k \in 1..Len(participants) :
                                participants[k].userId = joins[i].userId
       IN  /\ joins' = IF isParticipant THEN RemoveAt(joins, i)
                       ELSE [joins EXCEPT ![i].at = "select"]
           /\ httpLast' = [op |-> IF isParticipant THEN "joined" ELSE "joinChecked",
                           userId |-> joins[i].userId]
    /\ UNCHANGED << participantsTable, playlistItemsTable, deletes, requests >>

\* addParticipant: its select resolved; an existing row is returned and the
\* request answered, else the insert is issued
AddParticipantSelected(i) ==
    /\ i \in 1..Len(joins)
    /\ joins[i].at = "select"
    /\ LET found == Len(existingParticipant(participantsTable, joins[i].sessionId,
                                            joins[i].userId)) > 0
       IN  /\ joins' = IF found THEN RemoveAt(joins, i) ELSE [joins EXCEPT ![i].at = "insert"]
           /\ httpLast' = [op |-> IF found THEN "joined" ELSE "addSelected",
                           userId |-> joins[i].userId]
    /\ UNCHANGED << participantsTable, playlistItemsTable, deletes, requests >>

\* addParticipant: the insert ran; the request is answered
AddParticipantInserted(i) ==
    /\ i \in 1..Len(joins)
    /\ joins[i].at = "insert"
    /\ participantsTable' = Append(participantsTable,
                                   [sessionId |-> joins[i].sessionId, userId |-> joins[i].userId])
    /\ joins' = RemoveAt(joins, i)
    /\ httpLast' = [op |-> "joined", userId |-> joins[i].userId]
    /\ UNCHANGED << playlistItemsTable, deletes, requests >>

\* DELETE /api/playlists/:playlistId/items/:itemId up to `await
\* storage.getPlaylist`; 401 without a logged-in user
DeleteRequest(u, playlistId, itemId) ==
    /\ Request
    /\ deletes' = IF Truthy(u)
                  THEN Append(deletes, [userId |-> u, playlistId |-> playlistId,
                                        itemId |-> itemId, at |-> "getPlaylist"])
                  ELSE deletes
    /\ httpLast' = [op |-> IF Truthy(u) THEN "delete" ELSE "delete401", userId |-> u]
    /\ UNCHANGED << participantsTable, playlistItemsTable, joins >>

\* getPlaylist resolved: 404 without the playlist, 403 when it is another
\* user's, else removePlaylistItem is called
DeleteChecked(i) ==
    /\ i \in 1..Len(deletes)
    /\ deletes[i].at = "getPlaylist"
    /\ LET playlist == getPlaylist(deletes[i].playlistId)
           allowed == playlist # {} /\ \A p \in playlist : p.userId = deletes[i].userId
       IN  /\ deletes' = IF allowed THEN [deletes EXCEPT ![i].at = "removePlaylistItem"]
                         ELSE RemoveAt(deletes, i)
           /\ httpLast' = [op |-> IF playlist = {} THEN "delete404"
                                  ELSE IF allowed THEN "deleteChecked" ELSE "delete403",
                           userId |-> deletes[i].userId]
    /\ UNCHANGED << participantsTable, playlistItemsTable, joins, requests >>

\* removePlaylistItem ran: `delete ... where id = itemId`; the request is answered
DeleteRemoved(i) ==
    /\ i \in 1..Len(deletes)
    /\ deletes[i].at = "removePlaylistItem"
    /\ playlistItemsTable' = {it \in playlistItemsTable : it.id # deletes[i].itemId}
    /\ deletes' = RemoveAt(deletes, i)
    /\ httpLast' = [op |-> "deleted", userId |-> deletes[i].userId]
    /\ UNCHANGED << participantsTable, joins, requests >>

HttpNext ==
    \/ \E u \in UserIds \cup {Undefined}, s \in SessionIds \cup {3} :
           JoinRequest(u, s) /\ UNCHANGED << vars, clientVars >>
    \/ \E i \in 1..MaxRequests : JoinGotSession(i) /\ UNCHANGED << vars, clientVars >>
    \/ \E i \in 1..MaxRequests : JoinChecked(i) /\ UNCHANGED << vars, clientVars >>
    \/ \E i \in 1..MaxRequests : AddParticipantSelected(i) /\ UNCHANGED << vars, clientVars >>
    \/ \E i \in 1..MaxRequests : AddParticipantInserted(i) /\ UNCHANGED << vars, clientVars >>
    \/ \E u \in UserIds \cup {Undefined}, p \in 1..3, it \in 1..2 :
           DeleteRequest(u, p, it) /\ UNCHANGED << vars, clientVars >>
    \/ \E i \in 1..MaxRequests : DeleteChecked(i) /\ UNCHANGED << vars, clientVars >>
    \/ \E i \in 1..MaxRequests : DeleteRemoved(i) /\ UNCHANGED << vars, clientVars >>

HttpSpec == Init /\ [][HttpNext]_httpVars


\* ------------------------------------------------------------ vocabulary
Sockets(list) == {list[i].socket : i \in 1..Len(list)}

UserIdsOf(list) == {list[i].userId : i \in 1..Len(list)}

\* ws is the socket of some entry of session s
RegisteredIn(table, s, ws) == ws \in Sockets(ConnectionsOf(table, s))

\* the entry of (s, u) holds ws
StoredFor(table, s, u, ws) ==
    \E i \in 1..Len(ConnectionsOf(table, s)) : ConnectionsOf(table, s)[i] = Connection(u, ws)

\* how many times the last callback sent frame f to socket ws
Delivered(ws, f) == Cardinality({i \in 1..Len(sent) : sent[i].to = ws /\ sent[i].frame = f})

\* how many frames the last callback sent to socket ws
DeliveredAny(ws) == Cardinality({i \in 1..Len(sent) : sent[i].to = ws})

\* this step is the 'close' callback of connection c
CloseStep(c) == readyState[c] # "CLOSED" /\ readyState'[c] = "CLOSED"

\* ----------------------------------------------------------------- claims

\* C1: when connection A sends a valid videoSync frame for session S, every
\* other connection registered in S whose socket is open receives that frame
\* exactly once, and A's own socket never receives it.
C1_VideoSyncReachesOthersOnly ==
    last.op = "videoSync" =>
        LET A == last.conn
            S == last.frame.sessionId
        IN  /\ \A d \in Conns \ {A} :
                   (RegisteredIn(sessionConnections, S, d) /\ readyState[d] = "OPEN")
                       => Delivered(d, last.frame) = 1
            /\ DeliveredAny(A) = 0

\* C2: when storage.createMessage fails for a valid chat frame, the chat is
\* still fanned out to every open connection registered in the frame's session.
C2_FanOutDespiteStoreFailure ==
    last.op = "chatStoreFailed" =>
        \A d \in Conns :
            (RegisteredIn(sessionConnections, last.frame.sessionId, d) /\ readyState[d] = "OPEN")
                => Delivered(d, last.frame) >= 1

\* C3: a valid chat frame for session S is delivered to the sender's own socket
\* as well as to every other open connection registered in S, the sender's
\* first chat frame included.  (Stated for a sender whose closure variables
\* still name the frame's session and user and whose socket is open.)
C3_ChatReachesSender ==
    (/\ last.op = "chatStored"
     /\ readyState[last.conn] = "OPEN"
     /\ sessionId[last.conn] = last.frame.sessionId
     /\ userId[last.conn] = last.frame.userId)
        => /\ Delivered(last.conn, last.frame) >= 1
           /\ \A d \in Conns \ {last.conn} :
                  (RegisteredIn(sessionConnections, last.frame.sessionId, d)
                       /\ readyState[d] = "OPEN")
                      => Delivered(d, last.frame) >= 1

\* C4: after the handler of a valid chat frame from connection c carrying
\* (S, U) completes, the registry entry for (S, U) holds c's socket, and no
\* other socket is stored for (S, U).  (Stated for a handler that completes
\* with the closure variables still naming S and U.)
C4_ChatBindsSender ==
    (/\ last.op = "chatStored"
     /\ sessionId[last.conn] = last.frame.sessionId
     /\ userId[last.conn] = last.frame.userId)
        => \A d \in Conns :
               StoredFor(sessionConnections, last.frame.sessionId, last.frame.userId, d)
                   <=> d = last.conn

\* C5: while no chat handler is in flight, the registry's set for every session
\* S is exactly the set of connections whose most recent registry operation was
\* a register for S (a chat frame naming S, handled to its end) not followed by
\* their close.  (Stated for the states in which every handler ran to its end
\* before the close of its connection and every registered connection's closure
\* variable still names the session of its latest chat frame.)
C5_RegistryMatchesHistory ==
    (/\ Len(pending) = 0
     /\ \A c \in Conns :
            /\ lastReg[c] # Unsettled
            /\ lastReg[c].op = "register" => sessionId[c] = lastReg[c].sessionId)
        => \A s \in SessionIds, c \in Conns :
               RegisteredIn(sessionConnections, s, c) <=> lastReg[c] = RegisteredFor(s)

\* C6: when a connection closes whose socket is not the one stored for its
\* (sessionId, userId), the registry is left unchanged.
C6_StaleCloseLeavesRegistry ==
    [][\A c \in Conns :
           (CloseStep(c) /\ ~StoredFor(sessionConnections, sessionId[c], userId[c], c))
               => sessionConnections' = sessionConnections]_vars

\* C6 witness: connection c has closed while another socket is stored for c's
\* (sessionId, userId), and that entry is still there.
C6_Witness ==
    /\ last.op = "close"
    /\ \E d \in Conns \ {last.conn} :
           StoredFor(sessionConnections, sessionId[last.conn], userId[last.conn], d)

\* C7: each socket appears in at most one session's set.
C7_OneSessionPerSocket ==
    \A c \in Conns :
        Cardinality({s \in DOMAIN sessionConnections :
                         RegisteredIn(sessionConnections, s, c)}) <= 1

\* C8: once every connection registered in S has closed, the registry has no
\* key for S: every key of the registry holds a socket whose 'close' callback
\* has not run.
C8_NoKeyWithoutLiveSocket ==
    \A s \in DOMAIN sessionConnections :
        \E c \in Sockets(sessionConnections[s]) : readyState[c] # "CLOSED"

\* C9: when a connection registered in S closes and other connections remain
\* registered in S, every remaining open connection receives exactly one
\* sessionUpdate frame for S whose participants are exactly the userIds still
\* registered in S.
C9_SurvivorsGetRoster ==
    [][\A c \in Conns, s \in SessionIds :
           (/\ CloseStep(c)
            /\ RegisteredIn(sessionConnections, s, c)
            /\ Sockets(ConnectionsOf(sessionConnections, s)) # {c})
               => \A d \in Conns \ {c} :
                      (RegisteredIn(sessionConnections, s, d) /\ readyState'[d] = "OPEN")
                          => /\ DeliveredAny(d)' = 1
                             /\ \A i \in 1..Len(sent') :
                                    sent'[i].to = d =>
                                        /\ sent'[i].frame.type = "sessionUpdate"
                                        /\ sent'[i].frame.sessionId = s
                                        /\ UserIdsOf(sent'[i].frame.participants) =
                                               UserIdsOf(SelectSeq(sessionConnections[s],
                                                   LAMBDA conn : conn.socket # c))]_vars

\* C10: on close, a sessionUpdate is sent to a session only if the closing
\* connection's entry was removed from that session's set and peers remain.
C10_RosterOnlyAfterRemoval ==
    [][\A c \in Conns :
           CloseStep(c) =>
               \A i \in 1..Len(sent') :
                   LET s == sent'[i].frame.sessionId
                   IN  /\ s \in DOMAIN sessionConnections'
                       /\ Len(sessionConnections'[s]) < Len(ConnectionsOf(sessionConnections, s))]_vars


\* this step handles an inbound frame
ReceiveStep == frames' = frames + 1

\* C11: every inbound frame that is malformed or unrecognized (not parseable
\* JSON, unknown type, failing the schema of its type) causes exactly one error
\* frame, sent to the originating connection and to no other, and the
\* connection stays open.
C11_MalformedFrameAnswered ==
    last.op \in {"unparsable", "invalid"} =>
        /\ sent = << [to |-> last.conn, frame |-> ErrorFrame] >>
        /\ readyState[last.conn] = "OPEN"

\* C12: a chat frame with a missing message field (any frame failing schema
\* validation) is rejected whole: exactly one error frame to the sender, no
\* fan-out, no persistence call, no change to the registry or to the
\* connection's sessionId and userId.
C12_InvalidFrameRejectedWhole ==
    [][(ReceiveStep /\ last'.frame \in SchemaInvalidFrames)
           => /\ sent' = << [to |-> last'.conn, frame |-> ErrorFrame] >>
              /\ UNCHANGED << sessionConnections, userId, sessionId, pending >>]_vars

\* C12 witness: a chat frame without its message field was answered with the
\* error frame while another connection is registered in the session it names.
C12_Witness ==
    /\ last.op = "invalid"
    /\ last.frame = [type |-> "chat", sessionId |-> 1, userId |-> 1]
    /\ sent = << [to |-> last.conn, frame |-> ErrorFrame] >>
    /\ \E d \in Conns \ {last.conn} : RegisteredIn(sessionConnections, 1, d)

\* C13: frames of one connection are processed in arrival order: a frame is
\* not fanned out to a peer while an earlier frame of the same connection for
\* the same session still awaits its fan-out.
C13_ArrivalOrder ==
    \A i \in 1..Len(pending) :
        ~ /\ last.op \in {"videoSync", "sessionUpdate"}
          /\ last.conn = pending[i].conn
          /\ last.frame.sessionId = pending[i].chatMsg.sessionId
          /\ \E d \in Conns \ {last.conn} : Delivered(d, last.frame) >= 1

\* connection d has a chat frame for a session other than s at its store
WritePendingElsewhere(d, s) ==
    \E i \in 1..Len(pending) : pending[i].conn = d /\ pending[i].chatMsg.sessionId # s

\* socket ws is open and registered in session s under a userId other than u
OpenPeer(s, u, ws) ==
    /\ readyState[ws] = "OPEN"
    /\ \E i \in 1..Len(ConnectionsOf(sessionConnections, s)) :
           /\ ConnectionsOf(sessionConnections, s)[i].socket = ws
           /\ ConnectionsOf(sessionConnections, s)[i].userId # u

C15_FanOutNotGatedByStore ==
    last.op = "chat" =>
        \A d \in Conns \ {last.conn} :
            (RegisteredIn(sessionConnections, last.frame.sessionId, d)
                 /\ readyState[d] = "OPEN")
                => Delivered(d, last.frame) >= 1

\* this step runs one of the four fan-out loops
FanOutStep == last'.op \in {"videoSync", "chatStored", "sessionUpdate", "close"}

\* the list the loop of this step walks: the entries of the frame's session
\* (of the connection's session for a stored chat), before the registration
\* that follows the loop; on the close of a connection that has both ids, the
\* entries the filter kept
FanOutList ==
    CASE last'.op \in {"videoSync", "sessionUpdate"} ->
             ConnectionsOf(sessionConnections, last'.frame.sessionId)
      [] last'.op = "chatStored" ->
             ConnectionsOf(sessionConnections, sessionId[last'.conn])
      [] last'.op = "close" /\ Truthy(sessionId[last'.conn]) /\ Truthy(userId[last'.conn]) ->
             ConnectionsOf(sessionConnections', sessionId[last'.conn])
      [] OTHER -> << >>

\* the loop of this step addresses entry conn: videoSync leaves out the
\* entries of the sender's userId
FanOutAddresses(conn) == last'.op = "videoSync" => conn.userId # userId[last'.conn]

\* how many frames this step's callback sends to socket ws
SendsTo(ws) == Cardinality({i \in 1..Len(sent') : sent'[i].to = ws})

C17_SessionUpdateLeavesRegistry ==
    [][(ReceiveStep /\ last'.op = "sessionUpdate")
           => sessionConnections' = sessionConnections]_vars

\* C18: a valid videoSync or sessionUpdate frame from a connection that has
\* never sent a valid chat frame (its userId is still undefined) leaves the
\* registry unchanged and raises no error, and the frame is sent to every open
\* connection registered in the frame's session.
C18_NoIdentityNoRegistration ==
    [][(/\ ReceiveStep
        /\ last'.op \in {"videoSync", "sessionUpdate"}
        /\ userId[last'.conn] = Undefined)
           => /\ sessionConnections' = sessionConnections
              /\ \A i \in 1..Len(sent') : sent'[i].frame = last'.frame
              /\ \A d \in Conns :
                     (RegisteredIn(sessionConnections, last'.frame.sessionId, d)
                          /\ readyState[d] = "OPEN")
                         => SendsTo(d) >= 1]_vars

\* C18 witness: a connection without a userId has just had its videoSync or
\* sessionUpdate frame sent to a registered peer, and is itself in no session.
C18_Witness ==
    /\ last.op \in {"videoSync", "sessionUpdate"}
    /\ userId[last.conn] = Undefined
    /\ \E d \in Conns \ {last.conn} : Delivered(d, last.frame) = 1
    /\ \A s \in SessionIds : ~RegisteredIn(sessionConnections, s, last.conn)

\* C19: the relay calls storage.createMessage exactly once per valid chat
\* frame received over the socket, with that frame's sessionId, userId and
\* message, and never for a videoSync frame, a sessionUpdate frame or a
\* rejected frame.
C19_OneStoreCallPerChatFrame ==
    [][IF ReceiveStep /\ last'.frame \in chatMessageSchema
       THEN /\ Len(pending') = Len(pending) + 1
            /\ \A i \in 1..Len(pending) : pending'[i] = pending[i]
            /\ pending'[Len(pending')].insert =
                   [sessionId |-> last'.frame.sessionId,
                    userId |-> last'.frame.userId,
                    content |-> last'.frame.message]
       ELSE /\ Len(pending') <= Len(pending)
            /\ \A j \in 1..Len(pending') : \E i \in 1..Len(pending) : pending'[j] = pending[i]]_vars

\* C19 witness: a chat frame whose userId differs from its sessionId has just
\* been received, after a frame of another kind, and its one call is in flight.
C19_Witness ==
    /\ last.op = "chat"
    /\ last.frame.userId # last.frame.sessionId
    /\ frames >= 2
    /\ Len(pending) = 1
    /\ pending[1].conn = last.conn
    /\ pending[1].insert.userId = last.frame.userId

\* C20: in every reachable state each session's list holds at most one entry
\* per userId, whatever the interleaving of chat frames and closes of
\* connections claiming the same userId.
C20_OneEntryPerUser ==
    \A s \in DOMAIN sessionConnections :
        \A i, j \in 1..Len(sessionConnections[s]) :
            sessionConnections[s][i].userId = sessionConnections[s][j].userId => i = j

\* C20 witness: the chat frame of a second connection claiming a userId has
\* been handled to its end while the session's entry of that userId holds the
\* other connection's socket.
C20_Witness ==
    /\ last.op = "chatStored"
    /\ userId[last.conn] = last.frame.userId
    /\ sessionId[last.conn] = last.frame.sessionId
    /\ readyState[last.conn] = "OPEN"
    /\ \E d \in Conns \ {last.conn} :
           StoredFor(sessionConnections, last.frame.sessionId, last.frame.userId, d)

\* C21: no session key of the registry maps to an empty list: a key appears
\* only together with its first entry, which holds the socket of the connection
\* whose handler ran, and a key disappears only in the close step that removes
\* its last entry.
C21_NoEmptySession ==
    [][/\ \A s \in DOMAIN sessionConnections' : Len(sessionConnections'[s]) >= 1
       /\ \A s \in (DOMAIN sessionConnections') \ (DOMAIN sessionConnections) :
              /\ Len(sessionConnections'[s]) = 1
              /\ sessionConnections'[s][1].socket = last'.conn
       /\ \A s \in (DOMAIN sessionConnections) \ (DOMAIN sessionConnections') :
              /\ CloseStep(last'.conn)
              /\ Sockets(sessionConnections[s]) = {last'.conn}]_vars

\* C21 witness: the only connection that ever had a userId was registered by
\* a stored chat frame and has closed; the key of its session is gone and the
\* registry is empty.
C21_Witness ==
    /\ last.op = "close"
    /\ Truthy(userId[last.conn])
    /\ lastReg[last.conn] = Unregistered
    /\ pending = << >>
    /\ \A d \in Conns \ {last.conn} : userId[d] = Undefined
    /\ DOMAIN sessionConnections = {}

\* C22: a frame carrying sessionId S is delivered only to connections
\* registered in S; a chat for S whose sender names another session S' while
\* the store is pending is fanned out to no member of S'.
C22_DeliveredWithinFrameSession ==
    \A i \in 1..Len(sent) :
        sent[i].frame # ErrorFrame
            => RegisteredIn(sessionConnections, sent[i].frame.sessionId, sent[i].to)

\* C23: when the store of a chat frame completes after its connection has
\* closed, the registry contains no entry for the closed connection's socket.
C23_NoRegistrationAfterClose ==
    (last.op = "chatStored" /\ readyState[last.conn] = "CLOSED")
        => \A s \in SessionIds : ~RegisteredIn(sessionConnections, s, last.conn)

\* C24: each session's list contains each socket at most once, and no socket
\* is sent the same fanned-out frame more than once by one fan-out.
C24_OneEntryPerSocket ==
    /\ \A s \in DOMAIN sessionConnections :
           \A i, j \in 1..Len(sessionConnections[s]) :
               sessionConnections[s][i].socket = sessionConnections[s][j].socket => i = j
    /\ \A i \in 1..Len(sent) : Delivered(sent[i].to, sent[i].frame) = 1

\* C25: a videoSync or sessionUpdate frame naming session S is relayed to the
\* members of S only when the sending connection is itself registered in S.
C25_RelayOnlyFromMembers ==
    [][(/\ ReceiveStep
        /\ last'.op \in {"videoSync", "sessionUpdate"}
        /\ sent' # << >>)
           => RegisteredIn(sessionConnections, last'.frame.sessionId, last'.conn)]_vars

\* C26: useWebSocket keeps the same socket open for as long as sessionId and
\* userId are unchanged: no step of the page that leaves them as they are
\* closes the socket of socketRef or opens another one.
C26_SocketKeptAcrossRenders ==
    [][(/\ user' = user
        /\ Truthy(user)
        /\ socketRef # Undefined
        /\ clientSockets[socketRef] \in {"CONNECTING", "OPEN"})
           => /\ socketRef' = socketRef
              /\ Len(clientSockets') = Len(clientSockets)
              /\ clientSockets'[socketRef] \in {"CONNECTING", "OPEN"}]_clientVars

\* rows of the messages table that hold the n-th message the user sent
RowsOf(n) == {i \in 1..Len(messagesTable) : messagesTable[i].content = n}

\* the n-th message is still on its way: its frame or its POST is unhandled
OnItsWay(n) ==
    \/ \E i \in 1..Len(wsOut) : wsOut[i].message = n
    \/ \E i \in 1..Len(posts) : posts[i].state = "sent" /\ posts[i].messageData.content = n

\* C27: each chat message the user sends from the Watch page is appended to the
\* messages table exactly once, whatever the order in which its chat frame and
\* its POST are handled.
C27_MessageStoredOnce ==
    \A n \in 1..sends :
        /\ Cardinality(RowsOf(n)) <= 1
        /\ ~OnItsWay(n) => Cardinality(RowsOf(n)) = 1

\* C28: after any number of join requests of one user for one session,
\* concurrent ones included, the participants table holds exactly one row for
\* that (sessionId, userId): never two, and one as soon as a join is answered.
C28_JoinIdempotent ==
    \A s \in SessionIds, u \in UserIds :
        /\ Len(existingParticipant(participantsTable, s, u)) <= 1
        /\ (httpLast = [op |-> "joined", userId |-> u] /\ joins = << >>)
               => \E k \in 1..Len(participantsTable) : participantsTable[k].userId = u

\* C29: a DELETE request of user u removes an item only from a playlist owned
\* by u: every item row a step removes belongs to a playlist of the user whose
\* request the step handles.
C29_DeleteOnlyOwnItems ==
    [][\A it \in playlistItemsTable \ playlistItemsTable' :
           \A p \in getPlaylist(it.playlistId) : p.userId = httpLast'.userId]_httpVars

\* C30: every schema-valid identity binds: once a valid chat frame whose
\* userId or sessionId is 0 has been handled to its end on an open connection,
\* with no entry of that userId in the session before, the connection is
\* registered under the frame's sessionId and userId.
C30_ZeroIdBinds ==
    (/\ last.op = "chatStored"
     /\ (last.frame.userId = 0 \/ last.frame.sessionId = 0)
     /\ readyState[last.conn] = "OPEN"
     /\ userId[last.conn] = last.frame.userId
     /\ sessionId[last.conn] = last.frame.sessionId
     /\ \A d \in Conns \ {last.conn} :
            ~StoredFor(sessionConnections, last.frame.sessionId, last.frame.userId, d))
        => StoredFor(sessionConnections, last.frame.sessionId, last.frame.userId, last.conn)

====
